---- MODULE Spec2Model ----
(***************************************************************************)
(* Model of prenlp/data/dataset/language_modeling.py: the three dataset    *)
(* loaders WikiText2, WikiText103 and WikiTextKo.                          *)
(*                                                                         *)
(* A Python str is a sequence of one-character strings, a text file is the *)
(* str of its decoded content, and a directory is a function from file     *)
(* names to file states.  One behaviour follows one loader class over the  *)
(* directory <root>/<dirname> of that class.                               *)
(***************************************************************************)
EXTENDS Integers, Sequences, FiniteSets, TLC

VARIABLES
    cls,         \* the loader class this behaviour is about
    skip_empty,  \* self.skip_empty
    dirExists,   \* (self.root/self.dirname).exists()
    tokens,      \* <root>/<dirname>/wiki.*.tokens : split file -> file state
    shards,      \* <root>/<dirname>/**/wiki_*     : shard path -> file state
    pc,          \* position of the running call
    caller,      \* who called _get_data: "init" (the constructor) or "direct"
    i,           \* loop index of the for loop in _get_data
    filenames,   \* local `filenames` of WikiTextKo._get_data (glob order)
    dataset,     \* local `dataset` of _get_data
    ret,         \* value returned by _get_data
    data,        \* the constructed Dataset object's data
    exc,         \* exception that left the running call, "none" if none
    log,         \* events of the running construction, in order
    opened,      \* names of the files the running call opened, in order
    toolStatus,  \* exit status os.system returned in this construction
    fs0,         \* the directory as it was when the running construction began
    prev,        \* outcome of the construction completed before the running one
    nconstr      \* number of constructions begun

vars == <<cls, skip_empty, dirExists, tokens, shards, pc, caller, i, filenames,
          dataset, ret, data, exc, log, opened, toolStatus, fs0, prev, nconstr>>

---------------------------------------------------------------------------
(* Bounds *)

\* longest exhaustively enumerated token-file content, in characters
MaxLen == 3
\* most JSON lines in one shard file
MaxDocs == 1
\* most constructions in one behaviour
MaxConstructions == 2

---------------------------------------------------------------------------
(* Python str and file primitives *)

NL == "\n"

\* characters str.strip() removes (those of the model's alphabet)
Whitespace == {" ", NL}

IsSpace(c) == c \in Whitespace

RECURSIVE lstrip(_)
lstrip(s) == IF s # <<>> /\ IsSpace(Head(s)) THEN lstrip(Tail(s)) ELSE s

RECURSIVE rstrip(_)
rstrip(s) ==
    IF s # <<>> /\ IsSpace(s[Len(s)]) THEN rstrip(SubSeq(s, 1, Len(s) - 1)) ELSE s

\* a strip that forgets the right end
strip_left_only(s) == lstrip(s)

\* str.strip(): leading and trailing whitespace removed
strip(s) == rstrip(lstrip(s))

\* reader.readlines(): the content cut after every line terminator, each line
\* keeping its terminator; a last line without terminator is a line too.
\* (Text mode hands every terminator over as "\n"; the alphabet holds no "\r".)
RECURSIVE readlines_from(_, _)
readlines_from(rest, cur) ==
    IF rest = <<>> THEN (IF cur = <<>> THEN <<>> ELSE <<cur>>)
    ELSE IF Head(rest) = NL
         THEN <<Append(cur, NL)>> \o readlines_from(Tail(rest), <<>>)
         ELSE readlines_from(Tail(rest), Append(cur, Head(rest)))

readlines(content) == readlines_from(content, <<>>)

\* [line.strip() for line in lines]
strip_all(lines) == [k \in 1..Len(lines) |-> strip(lines[k])]

\* file states: a file that decodes as UTF-8 to `content`, no file, or a file
\* whose bytes are not valid UTF-8
File(c) == [kind |-> "file", content |-> c]
Missing == [kind |-> "missing"]
Undecodable == [kind |-> "undecodable"]

\* an open() that yields an empty reader for whatever it cannot read
open_error_swallowed(f) == "none"

\* open(filename, 'r', encoding='utf-8') followed by readlines(): the
\* exception it raises, "none" when the file opens and decodes
open_error(f) ==
    IF f.kind = "missing" THEN "FileNotFoundError"
    ELSE IF f.kind = "undecodable" THEN "UnicodeDecodeError"
    ELSE "none"

\* what the reader holds once opened
content_of(f) == IF f.kind = "file" THEN f.content ELSE <<>>

---------------------------------------------------------------------------
(* Fixed-split loaders: WikiText2 and WikiText103 (same code, other url) *)

FixedSplit == {"WikiText2", "WikiText103"}

\* a loop that reads the test file before the validation file
SplitFiles_swapped == <<"wiki.train.tokens", "wiki.test.tokens", "wiki.valid.tokens">>

\* the default arguments train, valid, test of _get_data, in loop order
SplitFiles == <<"wiki.train.tokens", "wiki.valid.tokens", "wiki.test.tokens">>

Splits == {SplitFiles[k] : k \in 1..Len(SplitFiles)}

\* an `if line` in place of `if line.strip()`
samples_skip_raw(content, skip) ==
    IF skip
    THEN strip_all(SelectSeq(readlines(content), LAMBDA line : line # <<>>))
    ELSE strip_all(readlines(content))

\* the samples of one file: the list comprehension of either branch
samples_of(content, skip) ==
    IF skip
    THEN strip_all(SelectSeq(readlines(content), LAMBDA line : strip(line) # <<>>))
    ELSE strip_all(readlines(content))

---------------------------------------------------------------------------
(* Document-corpus loader: WikiTextKo *)

\* a JSON-lines line is a JSON object: a function from its keys to its string
\* members as written in the file, escapes undecoded
BS == "\\"

\* json string decoding of one member: \n is the newline, \\ the backslash;
\* any other escape is a JSONDecodeError
RECURSIVE json_unescape(_)
json_unescape(body) ==
    IF body = <<>> THEN [ok |-> TRUE, val |-> <<>>]
    ELSE IF Head(body) = BS
    THEN IF Len(body) >= 2 /\ body[2] \in {"n", BS}
         THEN LET rest == json_unescape(SubSeq(body, 3, Len(body)))
                  c == IF body[2] = "n" THEN NL ELSE BS
              IN IF rest.ok THEN [ok |-> TRUE, val |-> <<c>> \o rest.val]
                 ELSE rest
         ELSE [ok |-> FALSE]
    ELSE LET rest == json_unescape(Tail(body))
         IN IF rest.ok THEN [ok |-> TRUE, val |-> <<Head(body)>> \o rest.val]
            ELSE rest

\* json.loads(line)['text']: the decoded text, or the exception raised
json_loads_text(line) ==
    IF "text" \notin DOMAIN line THEN [ok |-> FALSE, exc |-> "KeyError"]
    ELSE LET t == json_unescape(line["text"])
         IN IF t.ok THEN [ok |-> TRUE, val |-> t.val]
            ELSE [ok |-> FALSE, exc |-> "JSONDecodeError"]

\* str.split(sep): the pieces between the separators, empty pieces included
RECURSIVE split_from(_, _, _)
split_from(rest, sep, cur) ==
    IF rest = <<>> THEN <<cur>>
    ELSE IF Head(rest) = sep
         THEN <<cur>> \o split_from(Tail(rest), sep, <<>>)
         ELSE split_from(Tail(rest), sep, Append(cur, Head(rest)))

split(s, sep) == split_from(s, sep, <<>>)

\* a document kept whole: no filter on the pieces
sentences_unfiltered(text) == split(text, NL)

\* the fixed-split rule applied to sentences: whitespace-only ones dropped
sentences_nonblank(text) == SelectSeq(split(text, NL), LAMBDA x : strip(x) # <<>>)

\* list(filter(lambda x: len(x) > 0, text.split('\n')))
sentences(text) == SelectSeq(split(text, NL), LAMBDA x : Len(x) > 0)

\* code points of the characters of shard paths
Ord(c) ==
    CASE c = "/" -> 47 [] c = "0" -> 48 [] c = "1" -> 49
      [] c = "A" -> 65 [] c = "B" -> 66 [] c = "_" -> 95
      [] c = "i" -> 105 [] c = "k" -> 107 [] c = "w" -> 119

\* str < str: lexicographic by code point, a proper prefix first
RECURSIVE StrLess(_, _)
StrLess(a, b) ==
    IF b = <<>> THEN FALSE
    ELSE IF a = <<>> THEN TRUE
    ELSE IF Head(a) = Head(b) THEN StrLess(Tail(a), Tail(b))
    ELSE Ord(Head(a)) < Ord(Head(b))

\* insertion of x into the sorted list xs, after the elements not greater
RECURSIVE insert_sorted(_, _)
insert_sorted(x, xs) ==
    IF xs = <<>> THEN <<x>>
    ELSE IF StrLess(x, Head(xs)) THEN <<x>> \o xs
    ELSE <<Head(xs)>> \o insert_sorted(x, Tail(xs))

\* the list as enumerated
sorted_not(xs) == xs

\* sorted(filenames): ascending, stable
RECURSIVE sorted(_)
sorted(xs) ==
    IF xs = <<>> THEN <<>>
    ELSE insert_sorted(xs[Len(xs)], sorted(SubSeq(xs, 1, Len(xs) - 1)))

\* every line of a shard, in file order: json.loads, ['text'], split, filter,
\* dataset += samples; the first exception ends the loop
RECURSIVE read_documents(_, _)
read_documents(lines, acc) ==
    IF lines = <<>> THEN [ok |-> TRUE, exc |-> "none", val |-> acc]
    ELSE LET text == json_loads_text(Head(lines))
         IN IF text.ok
            THEN read_documents(Tail(lines), acc \o sentences(text.val))
            ELSE [ok |-> FALSE, exc |-> text.exc, val |-> acc]

---------------------------------------------------------------------------
(* Directories of the model *)

Loaders == FixedSplit \cup {"WikiTextKo"}

Alphabet == {"a", " ", NL}

\* every str of at most n characters
Strings(n) == UNION {[1..k -> Alphabet] : k \in 0..n}

\* "a\n\nb\n\n": the lines a, empty, b, empty
FourLines == <<"a", NL, NL, "b", NL, NL>>
\* "  a b  \n": a line with whitespace on both sides and inside
PaddedLine == <<" ", " ", "a", " ", "b", " ", " ", NL>>
\* "a\n \nb": a whitespace-only line, and a last line without terminator
BlankLine == <<"a", NL, " ", NL, "b">>

TokenContents == Strings(MaxLen) \cup {FourLines, PaddedLine, BlankLine}

\* the directories _get_data is applied to: the three files are read one
\* after the other by the same code, so one file ranges over every content
\* while the other two range over a few
ShortContents == {<<>>, <<"a", NL>>, FourLines}

TokenDirs ==
    {[f \in Splits |-> IF f = g THEN File(c) ELSE File(short[f])] :
         g \in Splits, c \in TokenContents, short \in [Splits -> ShortContents]}

\* shard paths below <root>/<dirname>/, as the extraction tool names them
ShardAA00 == <<"A", "A", "/", "w", "i", "k", "i", "_", "0", "0">>
ShardAA01 == <<"A", "A", "/", "w", "i", "k", "i", "_", "0", "1">>
ShardAB00 == <<"A", "B", "/", "w", "i", "k", "i", "_", "0", "0">>

Paths == {ShardAA00, ShardAA01, ShardAB00}

\* {"title": "s", "text": "s1\ns2\n"}
DocS1S2 == [title |-> <<"s">>, text |-> <<"s", "1", BS, "n", "s", "2", BS, "n">>]
\* {"text": "s3"}
DocS3 == [text |-> <<"s", "3">>]
\* {"text": " \n\ns"}: a whitespace-only sentence and an empty one
DocBlank == [text |-> <<" ", BS, "n", BS, "n", "s">>]
\* {"text": "\s"}: not JSON
DocBadEscape == [text |-> <<BS, "s">>]
\* {"title": "s"}: no "text" member
DocNoText == [title |-> <<"s">>]

DocLines == {DocS1S2, DocS3, DocBlank, DocBadEscape}

\* every list of at most n JSON lines
Documents(n) == UNION {[1..k -> DocLines] : k \in 0..n}

AllMissing == [f \in Splits |-> Missing]
NoShards == [p \in Paths |-> Missing]

\* what a directory found on disk, or an unpacked archive, may hold
DiskTokens == {Missing, Undecodable, File(FourLines), File(BlankLine)}
ArchiveTokens == {File(FourLines), File(PaddedLine)}
DiskShards == {Missing, File(<<DocS1S2>>), File(<<DocS3, DocBlank>>), File(<<DocNoText>>)}

\* the orders in which a directory scan may yield the files of S
Perms(S) ==
    {s \in [1..Cardinality(S) -> S] : \A a, b \in 1..Cardinality(S) : a # b => s[a] # s[b]}

\* the shard files glob('**/wiki_*') finds: none below a directory that is absent
present_shards == IF dirExists THEN {p \in Paths : shards[p].kind # "missing"} ELSE {}

---------------------------------------------------------------------------
(* _get_data *)

\* where a finished _get_data returns to
return_to == IF caller = "init" THEN "super_init" ELSE "returned"

\* dataset = []; for i, data in enumerate([train, valid, test]):
get_data_begin ==
    /\ pc = "get_data"
    /\ cls \in FixedSplit
    /\ dataset' = <<>>
    /\ i' = 1
    /\ pc' = "for"
    /\ UNCHANGED <<cls, skip_empty, dirExists, tokens, shards, caller, filenames,
                   ret, data, exc, log, toolStatus, fs0, prev, nconstr, opened>>

\* one pass of the loop body: open the file, read it, append its samples
get_data_iter ==
    /\ pc = "for"
    /\ cls \in FixedSplit
    /\ i <= Len(SplitFiles)
    /\ LET f == tokens[SplitFiles[i]]
           e == open_error(f)
       IN /\ log' = Append(log, "open")
          /\ opened' = Append(opened, SplitFiles[i])
          /\ IF e # "none"
             THEN /\ exc' = e
                  /\ pc' = "raised"
                  /\ UNCHANGED <<dataset, i>>
             ELSE /\ dataset' = Append(dataset, samples_of(content_of(f), skip_empty))
                  /\ i' = i + 1
                  /\ UNCHANGED <<pc, exc>>
    /\ UNCHANGED <<cls, skip_empty, dirExists, tokens, shards, caller, filenames,
                   ret, data, toolStatus, fs0, prev, nconstr>>

\* return dataset
get_data_return ==
    /\ pc = "for"
    /\ cls \in FixedSplit
    /\ i > Len(SplitFiles)
    /\ ret' = dataset
    /\ pc' = return_to
    /\ UNCHANGED <<cls, skip_empty, dirExists, tokens, shards, caller, i, filenames,
                   dataset, data, exc, log, toolStatus, fs0, prev, nconstr, opened>>

\* dataset = []; filenames = [str(f) for f in (root/dirname).glob('**/wiki_*')]
ko_get_data_glob ==
    /\ pc = "get_data"
    /\ cls = "WikiTextKo"
    /\ dataset' = <<>>
    /\ \E order \in Perms(present_shards) : filenames' = order
    /\ i' = 1
    /\ log' = Append(log, "glob")
    /\ pc' = "for"
    /\ UNCHANGED <<cls, skip_empty, dirExists, tokens, shards, caller,
                   ret, data, exc, toolStatus, fs0, prev, nconstr, opened>>

\* one pass of `for filename in sorted(filenames)`: the whole shard
ko_get_data_iter ==
    /\ pc = "for"
    /\ cls = "WikiTextKo"
    /\ i <= Len(filenames)
    /\ LET f == shards[sorted(filenames)[i]]
           e == open_error(f)
           r == read_documents(content_of(f), dataset)
       IN /\ log' = Append(log, "open")
          /\ opened' = Append(opened, sorted(filenames)[i])
          /\ IF e # "none" \/ ~r.ok
             THEN /\ exc' = IF e # "none" THEN e ELSE r.exc
                  /\ pc' = "raised"
                  /\ dataset' = IF e # "none" THEN dataset ELSE r.val
                  /\ UNCHANGED i
             ELSE /\ dataset' = r.val
                  /\ i' = i + 1
                  /\ UNCHANGED <<pc, exc>>
    /\ UNCHANGED <<cls, skip_empty, dirExists, tokens, shards, caller, filenames,
                   ret, data, toolStatus, fs0, prev, nconstr>>

\* return dataset
ko_get_data_return ==
    /\ pc = "for"
    /\ cls = "WikiTextKo"
    /\ i > Len(filenames)
    /\ ret' = dataset
    /\ pc' = return_to
    /\ UNCHANGED <<cls, skip_empty, dirExists, tokens, shards, caller, i, filenames,
                   dataset, data, exc, log, toolStatus, fs0, prev, nconstr, opened>>

---------------------------------------------------------------------------
(* Construction *)

\* a constructor that downloads whatever it finds
needs_download_always(exists) == TRUE

\* a constructor that never downloads
needs_download_never(exists) == FALSE

\* if not (self.root/self.dirname).exists():
needs_download(exists) == ~exists

\* whether the download step of the running construction was invoked
Downloaded == \E k \in 1..Len(log) : log[k] = "download"

\* __init__ up to the existence test: the attributes are set, skip_empty to
\* True, and the directory is looked up.  The caller may construct again once
\* a construction has returned or raised.
Construct ==
    /\ caller = "init"
    /\ pc \in {"idle", "done", "raised"}
    /\ nconstr < MaxConstructions
    /\ nconstr' = nconstr + 1
    /\ prev' = IF pc = "idle" THEN prev
               ELSE [outcome |-> pc, data |-> data, exc |-> exc,
                     downloaded |-> Downloaded, existed |-> fs0.dirExists]
    /\ fs0' = [dirExists |-> dirExists, tokens |-> tokens, shards |-> shards]
    /\ skip_empty' = TRUE
    /\ pc' = IF needs_download(dirExists) THEN "download" ELSE "get_data"
    /\ i' = 0
    /\ filenames' = <<>>
    /\ dataset' = <<>>
    /\ ret' = <<>>
    /\ data' = <<>>
    /\ exc' = "none"
    /\ log' = <<>>
    /\ opened' = <<>>
    /\ toolStatus' = -1
    /\ UNCHANGED <<cls, dirExists, tokens, shards, caller>>

\* Dataset._download of the base class: the archive is fetched and unpacked
\* below root, or the fetch raises
base_download ==
    /\ pc = "download"
    /\ cls \in FixedSplit
    /\ log' = Append(log, "download")
    /\ \/ /\ exc' = "ConnectionError"
          /\ pc' = "raised"
          /\ UNCHANGED <<dirExists, tokens>>
       \/ /\ \E t \in [Splits -> ArchiveTokens] : tokens' = t
          /\ dirExists' = TRUE
          /\ pc' = "get_data"
          /\ UNCHANGED exc
    /\ UNCHANGED <<cls, skip_empty, shards, caller, i, filenames, dataset, ret,
                   data, toolStatus, fs0, prev, nconstr, opened>>

\* what the extraction tool may leave below <root>/<dirname>: a run that exits
\* with 0 has written shards, a run that does not may have written none, some
\* or all of them
ToolOutputs(status) ==
    IF status = 0 THEN [Paths -> DiskShards] \ {NoShards} ELSE [Paths -> DiskShards]

\* an os.system whose status is checked (subprocess.run(..., check=True))
after_system_checked(status) == IF status = 0 THEN "get_data" ELSE "raised"

\* where _download goes on after os.system(...) returned `status`
after_system(status) == "get_data"

\* WikiTextKo._download: both download_from_url calls, then os.system
ko_download ==
    /\ pc = "download"
    /\ cls = "WikiTextKo"
    /\ \/ /\ exc' = "ConnectionError"
          /\ pc' = "raised"
          /\ log' = Append(log, "download")
          /\ UNCHANGED <<dirExists, shards, toolStatus>>
       \/ \E status \in {0, 1} : \E written \in ToolOutputs(status) : \E mkdir \in BOOLEAN :
             /\ toolStatus' = status
             /\ shards' = written
             /\ dirExists' = (mkdir \/ status = 0 \/ written # NoShards)
             /\ log' = log \o <<"download", "extract">>
             /\ pc' = after_system(status)
             /\ exc' = IF after_system(status) = "raised" THEN "CalledProcessError" ELSE exc
    /\ UNCHANGED <<cls, skip_empty, tokens, caller, i, filenames, dataset, ret,
                   data, fs0, prev, nconstr, opened>>

\* super().__init__(self._get_data()): the Dataset holds what _get_data returned
super_init ==
    /\ pc = "super_init"
    /\ data' = ret
    /\ pc' = "done"
    /\ UNCHANGED <<cls, skip_empty, dirExists, tokens, shards, caller, i, filenames,
                   dataset, ret, exc, log, toolStatus, fs0, prev, nconstr, opened>>

\* len(dataset)
dataset_len == Len(data)

---------------------------------------------------------------------------
(* Specifications *)

NoPrev == [outcome |-> "none", data |-> <<>>, exc |-> "none",
           downloaded |-> FALSE, existed |-> FALSE]

\* the locals and the history before anything has run
Fresh ==
    /\ i = 0
    /\ filenames = <<>>
    /\ dataset = <<>>
    /\ ret = <<>>
    /\ data = <<>>
    /\ exc = "none"
    /\ log = <<>>
    /\ opened = <<>>
    /\ toolStatus = -1
    /\ prev = NoPrev
    /\ nconstr = 0
    /\ fs0 = [dirExists |-> dirExists, tokens |-> tokens, shards |-> shards]

\* a caller about to construct a loader over a directory that is absent, or
\* present with whatever it holds
Init ==
    /\ cls \in Loaders
    /\ skip_empty = TRUE
    /\ dirExists \in BOOLEAN
    /\ tokens \in IF dirExists /\ cls \in FixedSplit
                  THEN [Splits -> DiskTokens] ELSE {AllMissing}
    /\ shards \in IF dirExists /\ cls = "WikiTextKo"
                  THEN [Paths -> DiskShards] ELSE {NoShards}
    /\ pc = "idle"
    /\ caller = "init"
    /\ Fresh

GetData ==
    \/ get_data_begin
    \/ get_data_iter
    \/ get_data_return
    \/ ko_get_data_glob
    \/ ko_get_data_iter
    \/ ko_get_data_return

Next ==
    \/ Construct
    \/ base_download
    \/ ko_download
    \/ GetData
    \/ super_init

Spec == Init /\ [][Next]_vars

\* _get_data called on an instance over a populated directory, with either
\* value of the skip_empty attribute
InitGetData ==
    /\ cls \in Loaders
    /\ skip_empty \in IF cls \in FixedSplit THEN BOOLEAN ELSE {TRUE}
    /\ dirExists = TRUE
    /\ tokens \in IF cls \in FixedSplit
                  THEN TokenDirs ELSE {AllMissing}
    /\ shards \in IF cls = "WikiTextKo"
                  THEN [Paths -> {Missing} \cup {File(d) : d \in Documents(MaxDocs)}]
                  ELSE {NoShards}
    /\ pc = "get_data"
    /\ caller = "direct"
    /\ Fresh

GetDataSpec == InitGetData /\ [][GetData]_vars

---------------------------------------------------------------------------
(* Properties of the fixed-split _get_data, stated on the file contents *)

Train == "wiki.train.tokens"
Valid == "wiki.valid.tokens"
Test == "wiki.test.tokens"

\* the positions at which a line of content c begins
LineStarts(c) == {s \in 1..Len(c) : s = 1 \/ c[s - 1] = NL}

\* the position of the last character of the line that begins at s
LineEnd(c, s) ==
    CHOOSE e \in s..Len(c) :
        /\ c[e] = NL \/ e = Len(c)
        /\ \A k \in s..(e - 1) : c[k] # NL

NumLines(c) == Cardinality(LineStarts(c))

\* the n-th line of c, terminator included
SourceLine(c, n) ==
    LET s == CHOOSE t \in LineStarts(c) :
                 Cardinality({u \in LineStarts(c) : u < t}) = n - 1
    IN SubSeq(c, s, LineEnd(c, s))

IsBlank(line) == \A k \in 1..Len(line) : IsSpace(line[k])

\* the numbers of the lines that yield a sample
KeptLines(c, skip) ==
    IF skip THEN {n \in 1..NumLines(c) : ~IsBlank(SourceLine(c, n))}
    ELSE 1..NumLines(c)

\* the number of the line that yields the j-th sample
NthKept(c, skip, j) ==
    CHOOSE n \in KeptLines(c, skip) :
        Cardinality({m \in KeptLines(c, skip) : m < n}) = j - 1

\* s is `line` without its leading and trailing whitespace, nothing else changed
IsStripOf(s, line) ==
    /\ s = <<>> \/ (~IsSpace(s[1]) /\ ~IsSpace(s[Len(s)]))
    /\ \E p \in 0..Len(line) : \E q \in p..Len(line) :
          /\ s = SubSeq(line, p + 1, q)
          /\ \A k \in 1..p : IsSpace(line[k])
          /\ \A k \in (q + 1)..Len(line) : IsSpace(line[k])

\* a direct call of a fixed-split _get_data has returned
FixedReturned == cls \in FixedSplit /\ pc = "returned"

\* C1: with the three files present, a fixed-split _get_data returns exactly
\* three sequences in the order train, valid, test; each is as long as its
\* file has lines that are non-empty after stripping (skip_empty true) or
\* lines at all (skip_empty false), and its samples follow the line order.
C1_ThreeSplitsInOrder ==
    FixedReturned =>
        /\ Len(ret) = 3
        /\ \A k \in 1..3 :
              LET c == tokens[<<Train, Valid, Test>>[k]].content
              IN /\ Len(ret[k]) =
                        IF skip_empty
                        THEN Cardinality({n \in 1..NumLines(c) : strip(SourceLine(c, n)) # <<>>})
                        ELSE NumLines(c)
                 /\ \A j \in 1..Len(ret[k]) :
                        IsStripOf(ret[k][j], SourceLine(c, NthKept(c, skip_empty, j)))

C1_Witness ==
    /\ FixedReturned
    /\ skip_empty
    /\ tokens[Train] = File(FourLines)
    /\ tokens[Valid] = File(<<"a", NL>>)
    /\ tokens[Test] = File(<<>>)
    /\ <<Len(ret[1]), Len(ret[2]), Len(ret[3])>> = <<2, 1, 0>>

\* C2: every stored sample of a fixed-split loader is a line read without its
\* leading and trailing whitespace (terminator included) and with its
\* interior unchanged, so no sample begins or ends with whitespace, whatever
\* skip_empty is; the line "  a b  \n" is stored as "a b".
C2_SamplesStripped ==
    FixedReturned =>
        \A k \in 1..Len(ret) :
            LET c == tokens[<<Train, Valid, Test>>[k]].content
            IN /\ \A j \in 1..Len(ret[k]) :
                      /\ \E n \in 1..NumLines(c) : IsStripOf(ret[k][j], SourceLine(c, n))
                      /\ ret[k][j] # <<>> =>
                             /\ ret[k][j][1] \notin Whitespace
                             /\ ret[k][j][Len(ret[k][j])] \notin Whitespace
               /\ ~skip_empty =>
                      \A n \in 1..NumLines(c) : IsStripOf(ret[k][n], SourceLine(c, n))
               /\ c = PaddedLine => ret[k] = << <<"a", " ", "b">> >>

C2_Witness ==
    /\ FixedReturned
    /\ ~skip_empty
    /\ tokens[Train] = File(PaddedLine)
    /\ ret[1] = << <<"a", " ", "b">> >>
    /\ tokens[Valid] = File(<<"a", NL>>)
    /\ ret[2] = << <<"a">> >>

\* C3: the lines a, empty, b, empty yield a, b with skip_empty true and a,
\* empty, b, empty with skip_empty false; with skip_empty true a line is left
\* out exactly when it is empty after stripping (whitespace-only lines too)
\* and no sample is the empty string; with skip_empty false every line yields
\* one sample.
C3_SkipEmptyFlag ==
    FixedReturned =>
        \A k \in 1..Len(ret) :
            LET c == tokens[<<Train, Valid, Test>>[k]].content
                blank == {n \in 1..NumLines(c) : IsBlank(SourceLine(c, n))}
            IN /\ c = FourLines =>
                      ret[k] = IF skip_empty THEN << <<"a">>, <<"b">> >>
                               ELSE << <<"a">>, <<>>, <<"b">>, <<>> >>
               /\ skip_empty =>
                      /\ Len(ret[k]) = NumLines(c) - Cardinality(blank)
                      /\ \A j \in 1..Len(ret[k]) : ret[k][j] # <<>>
               /\ ~skip_empty =>
                      /\ Len(ret[k]) = NumLines(c)
                      /\ \A n \in 1..NumLines(c) : ret[k][n] = <<>> <=> n \in blank

C3_Witness ==
    /\ FixedReturned
    /\ skip_empty
    /\ tokens[Test] = File(BlankLine)
    /\ ret[3] = << <<"a">>, <<"b">> >>
    /\ tokens[Train] = File(FourLines)
    /\ ret[1] = << <<"a">>, <<"b">> >>

---------------------------------------------------------------------------
(* Properties of WikiTextKo._get_data, stated on the shard contents *)

\* the shard paths in ascending order of their strings
AscendingPaths == <<ShardAA00, ShardAA01, ShardAB00>>

\* the positions at which a piece of text t begins, t split on the newline
PieceStarts(t) == {s \in 1..(Len(t) + 1) : s = 1 \/ t[s - 1] = NL}

\* the piece that begins at s: up to the next newline, or to the end
PieceAt(t, s) ==
    LET e == CHOOSE x \in (s - 1)..Len(t) :
                 /\ x = Len(t) \/ t[x + 1] = NL
                 /\ \A k \in s..x : t[k] # NL
    IN SubSeq(t, s, e)

\* whether xs is the list of the non-empty pieces of t, in order
IsNonEmptyPieces(xs, t) ==
    LET starts == {s \in PieceStarts(t) : PieceAt(t, s) # <<>>}
    IN /\ Len(xs) = Cardinality(starts)
       /\ \A j \in 1..Len(xs) :
              \E s \in starts :
                  /\ Cardinality({u \in starts : u < s}) = j - 1
                  /\ xs[j] = PieceAt(t, s)

\* the JSON lines of the shards that exist, shard by shard in ascending path
\* order and line by line
RECURSIVE LinesInOrder(_)
LinesInOrder(k) ==
    IF k = 0 THEN <<>>
    ELSE LinesInOrder(k - 1) \o content_of(shards[AscendingPaths[k]])

\* the number of samples the first n of these lines yield
RECURSIVE SamplesUpTo(_, _)
SamplesUpTo(lines, n) ==
    IF n = 0 THEN 0
    ELSE SamplesUpTo(lines, n - 1)
         + Len(SelectSeq(split(json_unescape(lines[n]["text"]).val, NL),
                         LAMBDA x : x # <<>>))

\* what reading the existing shards in ascending path order returns; the scan
\* order plays no part in it
RECURSIVE ReadAscending(_)
ReadAscending(k) ==
    IF k = 0 THEN <<>>
    ELSE read_documents(content_of(shards[AscendingPaths[k]]), ReadAscending(k - 1)).val

\* a direct call of WikiTextKo._get_data has returned
KoReturned == cls = "WikiTextKo" /\ pc = "returned"

C6_OrderIndependentOfScan ==
    (cls = "WikiTextKo" /\ pc \in {"for", "returned"}) =>
        /\ \A j \in 1..Len(opened) :
               \E k \in 1..Len(AscendingPaths) :
                   /\ opened[j] = AscendingPaths[k]
                   /\ Cardinality({m \in 1..(k - 1) : AscendingPaths[m] \in present_shards}) = j - 1
        /\ \A order \in Perms(present_shards) : sorted(order) = sorted(filenames)
        /\ pc = "returned" =>
               /\ Len(opened) = Cardinality(present_shards)
               /\ ret = ReadAscending(Len(AscendingPaths))

C6_Witness ==
    /\ KoReturned
    /\ filenames = <<ShardAB00, ShardAA00, ShardAA01>>
    /\ opened = <<ShardAA00, ShardAA01, ShardAB00>>
    /\ ret # <<>>

\* C10: every sample WikiTextKo._get_data returns is longer than 0 and holds
\* no newline; samples are verbatim pieces, not stripped, so the
\* whitespace-only sentence " " is a sample.
C10_SamplesNonEmptyVerbatim ==
    KoReturned =>
        /\ \A j \in 1..Len(ret) :
               /\ Len(ret[j]) > 0
               /\ \A k \in 1..Len(ret[j]) : ret[j][k] # NL
        /\ \A p \in present_shards :
               (\E n \in 1..Len(shards[p].content) : shards[p].content[n] = DocBlank)
                   => \E j \in 1..Len(ret) : ret[j] = <<" ">>

C10_Witness ==
    /\ KoReturned
    /\ shards[ShardAA00] = File(<<DocBlank>>)
    /\ present_shards = {ShardAA00}
    /\ ret = << <<" ">>, <<"s">> >>

---------------------------------------------------------------------------
(* Properties of construction *)

\* the directory as it is now
Disk == [dirExists |-> dirExists, tokens |-> tokens, shards |-> shards]

\* C4: a loader constructed twice over the same already-populated directory
\* invokes the download step in neither construction and holds identical
\* sequences both times; construction leaves the files on disk as they were.
C4_Idempotent ==
    /\ (nconstr >= 1 /\ fs0.dirExists) =>
           /\ pc # "download"
           /\ ~Downloaded
           /\ Disk = fs0
    /\ (prev.outcome = "done" /\ prev.existed) =>
           /\ ~prev.downloaded
           /\ fs0.dirExists
           /\ pc # "raised"
           /\ pc = "done" => data = prev.data

C4_Witness ==
    /\ cls = "WikiTextKo"
    /\ pc = "done"
    /\ prev.outcome = "done"
    /\ prev.existed
    /\ filenames = <<ShardAB00, ShardAA00>>
    /\ data = prev.data
    /\ Len(data) = 4

\* the running construction found no directory, ran the extraction tool, and
\* the tool exited with a status other than 0
ToolFailed ==
    /\ cls = "WikiTextKo"
    /\ nconstr >= 1
    /\ ~fs0.dirExists
    /\ toolStatus = 1

\* C7 as claimed: when the directory is absent and the extraction tool is
\* unavailable or fails, no error is raised, file discovery finds zero shard
\* files and construction completes with an empty dataset (length 0).
C7_AsClaimed ==
    ToolFailed =>
        /\ pc # "raised"
        /\ pc \in {"for", "super_init", "done"} => filenames = <<>>
        /\ pc = "done" => dataset_len = 0

\* C7, amended: when the directory is absent and the extraction tool is
\* unavailable or fails, _download does not check the exit status and raises
\* no error; file discovery finds the shard files the tool left, and when it
\* left none (as an unavailable tool does) construction completes with an
\* empty dataset (length 0) rather than an explicit error.
C7_SilentFailure ==
    ToolFailed =>
        /\ pc # "download"
        /\ exc \notin {"CalledProcessError", "ConnectionError"}
        /\ pc \in {"for", "super_init", "done"} =>
               /\ Len(filenames) = Cardinality(present_shards)
               /\ \A k \in 1..Len(filenames) : filenames[k] \in present_shards
        /\ shards = NoShards =>
               /\ pc # "raised"
               /\ exc = "none"
               /\ pc \in {"get_data", "for", "super_init"} => ENABLED Next
               /\ pc = "done" => dataset_len = 0

C7_Witness ==
    /\ ToolFailed
    /\ ~dirExists
    /\ shards = NoShards
    /\ pc = "done"
    /\ log = <<"download", "extract", "glob">>
    /\ dataset_len = 0

\* what holds in every state of a construction
C8_Inv ==
    nconstr >= 1 =>
        /\ pc = "download" => (~fs0.dirExists /\ log = <<>>)
        /\ pc # "download" => (Downloaded <=> ~fs0.dirExists)
        /\ Cardinality({k \in 1..Len(log) : log[k] = "download"}) <= 1
        /\ \A k \in 1..Len(log) :
               log[k] = "download" => \A j \in 1..(k - 1) : log[j] \notin {"glob", "open"}
        /\ pc \in {"super_init", "done"} => Len(log) > 0

\* what a step from a finished construction is: the caller constructing anew
C8_Step ==
    pc \in {"done", "raised"} =>
        /\ nconstr' = nconstr + 1
        /\ prev'.outcome = pc
        /\ prev'.data = data
        /\ log' = <<>>
        /\ UNCHANGED <<dirExists, tokens, shards>>

\* C8: a construction goes from 'not downloaded' through download+extract to
\* 'downloaded/parsed': the download step runs if and only if <root>/<dirname>
\* does not exist at construction, at most once, and before any data file is
\* read; a finished construction takes no further step (no later download,
\* extraction or parse).
C8_StateMachine == [](C8_Inv) /\ [][C8_Step]_vars

C8_Witness ==
    /\ pc = "done"
    /\ ~fs0.dirExists
    /\ log = <<"download", "open", "open", "open">>
    /\ Len(data) = 3

\* the first of the three files that cannot be read, as the directory was
\* when the construction began
FirstUnreadable ==
    LET order == <<Train, Valid, Test>>
        k == CHOOSE n \in 1..3 :
                 /\ fs0.tokens[order[n]].kind # "file"
                 /\ \A m \in 1..(n - 1) : fs0.tokens[order[m]].kind = "file"
    IN [index |-> k, kind |-> fs0.tokens[order[k]].kind]

\* C9: when <root>/<dirname> exists but one of the three files is missing or
\* undecodable, construction of a fixed-split loader fails with the
\* file-not-found or decode failure; it is not caught, no download repairs
\* the directory, and no dataset of fewer than three splits is returned.
C9_NoRecovery ==
    (/\ cls \in FixedSplit
     /\ nconstr >= 1
     /\ fs0.dirExists
     /\ \E f \in {Train, Valid, Test} : fs0.tokens[f].kind # "file") =>
        /\ pc \notin {"download", "super_init", "done"}
        /\ ~Downloaded
        /\ Disk = fs0
        /\ ret = <<>>
        /\ data = <<>>
        /\ pc = "get_data" => ENABLED get_data_begin
        /\ pc = "for" => (i <= FirstUnreadable.index /\ ENABLED get_data_iter)
        /\ pc = "raised" =>
               /\ Len(dataset) = FirstUnreadable.index - 1
               /\ exc = IF FirstUnreadable.kind = "missing"
                        THEN "FileNotFoundError" ELSE "UnicodeDecodeError"

C9_Witness ==
    /\ cls = "WikiText2"
    /\ fs0.dirExists
    /\ pc = "raised"
    /\ exc = "UnicodeDecodeError"
    /\ tokens[Test] = Undecodable
    /\ Len(dataset) = 2
    /\ data = <<>>

====
